---- MODULE Spec2Model ----
(***************************************************************************)
(* IMU Visualizer (src/main.c): a serial-port reader thread (modem_thread) *)
(* decodes "Ang.x = %d\t\tAng.y = %d" lines and stores the pair into the   *)
(* shared volatile Vector2 `orientation`; the main thread runs the raylib  *)
(* draw loop (render_thread) that reads the pair every frame; main then    *)
(* sets the stop flag, joins the reader and closes the port.               *)
(*                                                                         *)
(* Characters are one-character strings, a C string is a sequence of them. *)
(* A float is [sig, exp], standing for sig * 2^exp with |sig| <= 2^24.     *)
(***************************************************************************)
EXTENDS Integers, Sequences, FiniteSets, TLC

VARIABLES
    modem_thread_stop,  \* main.c:23  volatile int
    modem_fd,           \* main.c:24  descriptor number
    fd_open,            \* whether the descriptor is open in the kernel
    orientation,        \* main.c:26  volatile Vector2 [x, y]
    pc,                 \* position of the main thread (main and render_thread)
    argc,               \* main's argument count
    exit_code,          \* value returned by main, -1 while running
    x_ang, y_ang,       \* render_thread locals, main.c:123-124
    text_x, text_y,     \* the two arguments of TextFormat, main.c:146
    mpc,                \* position of modem_thread
    buf,                \* modem_thread's buffer, as the C string it holds
    res,                \* main.c:94,96
    term_idx,           \* << index written by buf[res] = 0 >>, main.c:97
    x, y, conv,         \* main.c:98-99
    pending,            \* fields of the store of main.c:101 not yet written
    tty_rest,           \* bytes of a line the last read() left in the tty
    publog,             \* history: the pairs whose store has begun, in order
    cellseq,            \* history: which publication wrote each field
    snapseq,            \* history: which publication each tick read saw
    tick_floor,         \* history: publications completed when the tick began
    after_stop          \* history: reads returned and publications stored
                        \* after main set the stop flag

vars == << modem_thread_stop, modem_fd, fd_open, orientation, pc, argc,
           exit_code, x_ang, y_ang, text_x, text_y, mpc, buf, res, term_idx,
           x, y, conv, pending, tty_rest, publog, cellseq, snapseq,
           tick_floor,
           after_stop >>

(***************************************************************************)
(* Bounds of the model.                                                    *)
(***************************************************************************)
\* publications counted by the history variables; further valid lines are
\* not delivered once this many stores have begun
MaxPub == 2

(***************************************************************************)
(* C integers and floats.                                                  *)
(***************************************************************************)
Pow2(n) == IF n = 0 THEN 1 ELSE
           IF n = 1 THEN 2 ELSE
           IF n = 2 THEN 4 ELSE
           IF n = 3 THEN 8 ELSE
           IF n = 4 THEN 16 ELSE
           IF n = 5 THEN 32 ELSE
           IF n = 6 THEN 64 ELSE
           IF n = 7 THEN 128 ELSE 256

Half16 == 65536
Mant24 == 16777216
MinInt32 == (-32768) * 65536

\* An unsigned 32-bit value is kept as <<high half, low half>>, so that no
\* intermediate result leaves the range of the checker's integers.
U32Zero == << 0, 0 >>

\* The magnitude strtol accumulates for %d is an unsigned long: four 16-bit
\* limbs, most significant first, and a flag set once it left 64 bits.
U64Zero == [limbs |-> << 0, 0, 0, 0 >>, ovf |-> FALSE]

\* acc * 10 + d, the digit accumulation of strtol
U64MulAdd(acc, d) ==
    LET l == acc.limbs
        p0 == l[4] * 10 + d
        p1 == l[3] * 10 + (p0 \div Half16)
        p2 == l[2] * 10 + (p1 \div Half16)
        p3 == l[1] * 10 + (p2 \div Half16)
    IN  [limbs |-> << p3 % Half16, p2 % Half16, p1 % Half16, p0 % Half16 >>,
         ovf |-> acc.ovf \/ p3 >= Half16]

\* the magnitude is outside long: above LONG_MAX = 2^63 - 1 for a positive
\* numeral, above 2^63 for a negative one
StrtolOverflows(acc, neg) ==
    LET l == acc.limbs
        top == Half16 \div 2
    IN  \/ acc.ovf
        \/ l[1] > top
        \/ l[1] = top /\ (~neg \/ l[2] # 0 \/ l[3] # 0 \/ l[4] # 0)

\* two's complement negation modulo 2^32
U32Neg(u) ==
    IF u[2] = 0 THEN << (Half16 - u[1]) % Half16, 0 >>
    ELSE << Half16 - 1 - u[1], Half16 - u[2] >>

\* the int whose bit pattern is u
ToInt32(u) ==
    IF u[1] >= 32768 THEN (u[1] - Half16) * Half16 + u[2]
    ELSE u[1] * Half16 + u[2]

\* (float)n of main.c:101 for an int n: round to nearest, ties to even, on a
\* 24-bit significand.
FloatOfMag(a, neg) ==
    LET k == CHOOSE e \in 0..8 :
                 /\ a \div Pow2(e) < Mant24
                 /\ (e = 0 \/ a \div Pow2(e - 1) >= Mant24)
        q == a \div Pow2(k)
        r == a % Pow2(k)
        h == IF k = 0 THEN 0 ELSE Pow2(k - 1)
        up == k > 0 /\ (r > h \/ (r = h /\ q % 2 = 1))
        s == IF up THEN q + 1 ELSE q
        sg == IF s = Mant24 THEN Mant24 \div 2 ELSE s
        ex == IF s = Mant24 THEN k + 1 ELSE k
    IN  [sig |-> IF neg THEN -sg ELSE sg, exp |-> ex]

FloatOfInt(n) ==
    IF n = MinInt32 THEN [sig |-> -(Mant24 \div 2), exp |-> 8]
    ELSE IF n < 0 THEN FloatOfMag(-n, TRUE)
    ELSE FloatOfMag(n, FALSE)

\* the float f has exactly the value of the integer n
FloatIsInt(f, n) ==
    LET p == Pow2(f.exp)
    IN  IF f.exp = 0 THEN f.sig = n
        ELSE IF f.exp > 7 THEN FALSE
        ELSE IF n >= 0 THEN n % p = 0 /\ n \div p = f.sig
        ELSE (-n) % p = 0 /\ (-n) \div p = -f.sig

FloatZero == [sig |-> 0, exp |-> 0]

\* variant: the cell left without its initialiser
OrientationInit_Uninit == [x |-> [sig |-> 1, exp |-> 0], y |-> FloatZero]

\* main.c:26  volatile Vector2 orientation = { 0 };
OrientationInit == [x |-> FloatZero, y |-> FloatZero]

(***************************************************************************)
(* sscanf(buf, "Ang.x = %d\t\tAng.y = %d", &x, &y), main.c:99.             *)
(***************************************************************************)
\* the vertical tab, 0x0b
VT == ""

\* isspace() in the C locale
IsSpace(c) == c \in {" ", "\t", "\n", "\r", "\f", VT}

DigitVal(c) ==
    CASE c = "0" -> 0 [] c = "1" -> 1 [] c = "2" -> 2 [] c = "3" -> 3
      [] c = "4" -> 4 [] c = "5" -> 5 [] c = "6" -> 6 [] c = "7" -> 7
      [] c = "8" -> 8 [] c = "9" -> 9 [] OTHER -> -1

IsDigit(c) == DigitVal(c) >= 0

\* the directives of the format string, in order; "%d" is the conversion
Format == << "A", "n", "g", ".", "x", " ", "=", " ", "%d", "\t", "\t",
             "A", "n", "g", ".", "y", " ", "=", " ", "%d" >>

\* first index >= i of s that holds no white space (Len(s) + 1 at the end)
SkipSpace(s, i) ==
    CHOOSE j \in i..(Len(s) + 1) :
        /\ j = Len(s) + 1 \/ ~IsSpace(s[j])
        /\ \A k \in i..(j - 1) : IsSpace(s[k])

\* first index >= i of s that holds no digit (Len(s) + 1 at the end)
SkipDigits(s, i) ==
    CHOOSE j \in i..(Len(s) + 1) :
        /\ j = Len(s) + 1 \/ ~IsDigit(s[j])
        /\ \A k \in i..(j - 1) : IsDigit(s[k])

\* the magnitude of the digits s[i .. j-1], accumulated from the left; once
\* it has left 64 bits the further digits are consumed without effect
RECURSIVE DigitsValue(_, _, _)
DigitsValue(s, i, j) ==
    IF j <= i THEN U64Zero
    ELSE LET acc == DigitsValue(s, i, j - 1)
         IN  IF acc.ovf THEN acc ELSE U64MulAdd(acc, DigitVal(s[j - 1]))

\* the run of digits of s from i: [next |-> index after it, val |-> value]
ScanDigits(s, i) ==
    LET j == SkipDigits(s, i)
    IN  [next |-> j, val |-> DigitsValue(s, i, j)]

\* the low 32 bits of the long strtol returns for the magnitude acc: the
\* numeral itself, or LONG_MAX / LONG_MIN when it is outside long; the store
\* through the int* argument keeps these bits
StrtolLow32(acc, neg) ==
    LET lo == << acc.limbs[3], acc.limbs[4] >>
    IN  IF StrtolOverflows(acc, neg)
        THEN IF neg THEN U32Zero ELSE << Half16 - 1, Half16 - 1 >>
        ELSE IF neg THEN U32Neg(lo) ELSE lo

\* one %d at index i: white space, an optional sign, at least one digit.
\* status is "ok", "eof" (input ended before the number) or "mismatch".
ScanInt(s, i) ==
    LET j == SkipSpace(s, i)
        signed == j <= Len(s) /\ s[j] \in {"+", "-"}
        neg == signed /\ s[j] = "-"
        k == IF signed THEN j + 1 ELSE j
        d == ScanDigits(s, k)
    IN  IF j > Len(s) THEN [status |-> "eof", next |-> j, val |-> 0]
        ELSE IF d.next = k THEN [status |-> "mismatch", next |-> k, val |-> 0]
        ELSE [status |-> "ok", next |-> d.next,
              val |-> ToInt32(StrtolLow32(d.val, neg))]

\* the return value on a failure after n conversions: EOF when the input
\* ended before the first conversion, otherwise the count so far
ScanFail(eof, n) == IF eof /\ n = 0 THEN -1 ELSE n

\* the directives from f on, applied to s from i, with the conversions vals
\* already stored
RECURSIVE ScanFrom(_, _, _, _)
ScanFrom(s, i, f, vals) ==
    IF f > Len(Format) THEN [conv |-> Len(vals), vals |-> vals]
    ELSE IF Format[f] = "%d" THEN
        LET n == ScanInt(s, i)
        IN  IF n.status = "ok"
            THEN ScanFrom(s, n.next, f + 1, Append(vals, n.val))
            ELSE [conv |-> ScanFail(n.status = "eof", Len(vals)),
                  vals |-> vals]
    ELSE IF IsSpace(Format[f]) THEN ScanFrom(s, SkipSpace(s, i), f + 1, vals)
    ELSE IF i > Len(s) THEN [conv |-> ScanFail(TRUE, Len(vals)), vals |-> vals]
    ELSE IF s[i] = Format[f] THEN ScanFrom(s, i + 1, f + 1, vals)
    ELSE [conv |-> ScanFail(FALSE, Len(vals)), vals |-> vals]

\* int x = 0, y = 0; int conv = sscanf(buf, ..., &x, &y);  main.c:98-99
Sscanf(s) ==
    LET r == ScanFrom(s, 1, 1, << >>)
    IN  [conv |-> r.conv,
         x |-> IF Len(r.vals) >= 1 THEN r.vals[1] ELSE 0,
         y |-> IF Len(r.vals) >= 2 THEN r.vals[2] ELSE 0]

(***************************************************************************)
(* What read(modem_fd, buf, buflen) can deliver, main.c:96.                *)
(***************************************************************************)
\* main.c:92  const int buflen = 1024;
buflen == 1024

AngX == << "A", "n", "g", ".", "x", " ", "=", " " >>
AngY == << "A", "n", "g", ".", "y", " ", "=", " " >>
Tabs == << "\t", "\t" >>
NL == << "\n" >>

\* the decimal numeral of n >= 0, and of any int
RECURSIVE DecNat(_)
DecNat(n) ==
    LET d == << "0", "1", "2", "3", "4", "5", "6", "7", "8", "9" >>
    IN  IF n < 10 THEN << d[n + 1] >> ELSE Append(DecNat(n \div 10), d[(n % 10) + 1])

Dec(n) == IF n < 0 THEN << "-" >> \o DecNat(-n) ELSE DecNat(n)

\* the line the device sends for the pair (i, j), with separator sep
LegacyLine(i, sep, j) == AngX \o Dec(i) \o sep \o AngY \o Dec(j) \o NL

\* the same line with white space added after the first number until the
\* line fills the buffer exactly
PaddedLine(i, j) ==
    LET head == AngX \o Dec(i)
        tail == AngY \o Dec(j) \o NL
        pad == buflen - Len(head) - Len(tail)
    IN  head \o [k \in 1..pad |-> " "] \o tail

\* the pairs of the lines used by both specifications
PairA == << 30, -15 >>
PairB == << 7, 9 >>

\* a line of exactly buflen bytes
FullLine == PaddedLine(PairB[1], PairB[2])

Garbage == << "g", "a", "r", "b", "a", "g", "e", "\n" >>
\* the first field only
OneField == AngX \o Dec(5) \o NL
\* a non-numeric token in the second field
BadSecond == AngX \o Dec(5) \o Tabs \o AngY \o << "?", "\n" >>
\* a non-numeric token in the first field
BadFirst == AngX \o << "z" >> \o Tabs \o AngY \o Dec(4) \o NL
\* the quaternion line of the later firmware
QuatLine == << "w", " ", "=", " ", "1", ".", "0", " ", "x", " ", "=", " ",
               "0", ".", "0", " ", "y", " ", "=", " ", "0", ".", "0", " ",
               "z", " ", "=", " ", "0", ".", "0", "\n" >>

\* a line longer than the buffer: white space after the first number
LongLine ==
    AngX \o Dec(1) \o [k \in 1..(buflen + 9) |-> " "] \o AngY \o Dec(2) \o NL
\* numerals outside the range of long
OverLine ==
    AngX \o << "9", "2", "2", "3", "3", "7", "2", "0", "3", "6", "8", "5",
               "4", "7", "7", "5", "8", "0", "8" >>
    \o Tabs \o AngY
    \o << "-", "9", "2", "2", "3", "3", "7", "2", "0", "3", "6", "8", "5",
          "4", "7", "7", "5", "8", "0", "9" >> \o NL

\* lines of the interleaving specification
LineA == LegacyLine(PairA[1], Tabs, PairA[2])
LineB == LegacyLine(PairB[1], Tabs, PairB[2])
SmallLines == { LineA, LineB, Garbage, OneField }

\* lines of the decoding specification
Seps == { Tabs, << " " >>, << " ", "\t", " " >>, << VT, "\t" >> }
TestPairs == { PairA, << 0, 0 >>, << -16777216, 16777216 >>,
               << 16777217, 5 >>, << 5, -16777219 >>, << -7, 2147483647 >> }
MalformedLines == { Garbage, OneField, BadSecond, BadFirst, QuatLine, NL }
DecodeLines ==
    { LegacyLine(p[1], sep, p[2]) : p \in TestPairs, sep \in Seps }
    \cup { FullLine, LongLine, OverLine }
    \cup MalformedLines

\* the contents the never-written stack buffer may hold at thread start: the
\* empty string of a fresh, zero-filled thread stack, or whatever else the
\* stack holds
UninitBufs == { << >>, << "?" >>, LegacyLine(1, Tabs, 2) }

\* read(modem_fd, buf, buflen) on the bytes l waiting in the tty: at most
\* buflen of them are stored, the others wait for the next call
ReadChunk(l) ==
    LET n == IF Len(l) <= buflen THEN Len(l) ELSE buflen
    IN  [res |-> n, data |-> SubSeq(l, 1, n), rest |-> SubSeq(l, n + 1, Len(l))]

\* a result of read(): res, the bytes stored at buf[0 .. res-1] and the
\* bytes left in the tty. -1 is a failed read, 0 is end of file; a closed
\* descriptor only fails. The canonical-mode tty (main.c:52) hands over one
\* line per call, and the rest of an unfinished line before anything else.
ReadResults(lines) ==
    { [res |-> -1, data |-> << >>, rest |-> tty_rest] }
    \cup IF ~fd_open THEN { }
         ELSE IF tty_rest # << >> THEN { ReadChunk(tty_rest) }
         ELSE { [res |-> 0, data |-> << >>, rest |-> << >>] }
              \cup { ReadChunk(l) : l \in lines }

\* sscanf is a function of the string alone: its result is computed once for
\* each string the buffer can hold and looked up from then on
KnownBufs ==
    DecodeLines \cup SmallLines \cup UninitBufs \cup { << >> }
    \cup { ReadChunk(LongLine).data, ReadChunk(LongLine).rest }
SscanfTable == [s \in KnownBufs |-> Sscanf(s)]
ScanBuf(s) == IF s \in KnownBufs THEN SscanfTable[s] ELSE Sscanf(s)

\* the C string in buf after the read and buf[res] = 0 (main.c:96-97): the
\* bytes read; a failed read stores nothing and the terminator goes to
\* buf[-1], which leaves the old contents in place
BufAfter(old, r) == IF r.res < 0 THEN old ELSE r.data

\* variant: publish as soon as one field was converted
ShouldPublish_AnyField(c) == c >= 1

\* main.c:100  if (conv == 2)
ShouldPublish(c) == c = 2

\* variant: the two fields exchanged
PairOf_Swapped(ix, iy) == [x |-> FloatOfInt(iy), y |-> FloatOfInt(ix)]

\* main.c:101  (Vector2) { (float)x, (float)y }
PairOf(ix, iy) == [x |-> FloatOfInt(ix), y |-> FloatOfInt(iy)]

\* main.c:123-124  DEG2RAD * orientation.f, kept symbolic in the float read
Deg2Rad(f) == [deg |-> f]

\* a local not yet assigned in this tick
NoFloat == [sig |-> 0, exp |-> -1]
NoAngle == [deg |-> NoFloat]
NoSeq == [x |-> -1, y |-> -1]

(***************************************************************************)
(* Initial state: process start, globals as initialised at main.c:23-26.   *)
(***************************************************************************)
Init ==
    /\ modem_thread_stop = 0
    /\ modem_fd = 0
    /\ fd_open = FALSE
    /\ orientation = OrientationInit
    /\ pc = "start"
    /\ argc \in {1, 2}
    /\ exit_code = -1
    /\ x_ang = NoAngle /\ y_ang = NoAngle
    /\ text_x = NoFloat /\ text_y = NoFloat
    /\ mpc = "idle"
    /\ buf \in UninitBufs
    /\ res = 0
    /\ term_idx = << >>
    /\ x = 0 /\ y = 0 /\ conv = 0
    /\ pending = {}
    /\ tty_rest = << >>
    /\ publog = << >>
    /\ cellseq = [x |-> 0, y |-> 0]
    /\ snapseq = NoSeq
    /\ tick_floor = 0
    /\ after_stop = [reads |-> 0, pubs |-> {}]

\* history: number of publications begun, and the value of the k-th
npub == Len(publog)
PubValue(k) == IF k = 0 THEN OrientationInit ELSE publog[k]
published == { publog[k] : k \in 1..Len(publog) }

modemVars == << mpc, buf, res, term_idx, x, y, conv, pending, tty_rest >>
histVars == << publog, cellseq, after_stop >>
renderVars == << x_ang, y_ang, text_x, text_y, snapseq, tick_floor >>
mainVars == << pc, argc, exit_code, modem_fd, fd_open >>

(***************************************************************************)
(* modem_thread, main.c:91-105.                                            *)
(***************************************************************************)
\* variant: the flag is read once before the loop and never again
StopObserved_Never == FALSE

\* main.c:95  while (!modem_thread_stop)
StopObserved == modem_thread_stop # 0

\* the loop head: leave when the flag is set, otherwise issue the read
ModemHead ==
    /\ mpc = "head"
    /\ mpc' = IF StopObserved THEN "returned" ELSE "reading"
    /\ UNCHANGED << modem_thread_stop, orientation, buf, res, term_idx, x, y,
                    conv, pending, tty_rest, histVars, renderVars, mainVars >>

\* variant: a line that was not published ends the loop
AfterDrop_Break == "returned"

\* main.c:103: a line that was not published is dropped and the loop goes on
AfterDrop == "head"

\* main.c:96-100: the read returns, the terminator is stored, the line is
\* scanned and the count compared; conv == 2 begins the store of main.c:101
ModemRead(lines) ==
    /\ mpc = "reading"
    /\ \E r \in ReadResults(lines) :
         LET b == BufAfter(buf, r)
             sc == ScanBuf(b)
         IN  /\ ShouldPublish(sc.conv) => npub < MaxPub
             /\ res' = r.res
             /\ term_idx' = << r.res >>
             /\ buf' = b
             /\ tty_rest' = r.rest
             /\ x' = sc.x /\ y' = sc.y /\ conv' = sc.conv
             /\ after_stop' =
                  IF modem_thread_stop # 0 /\ after_stop.reads < 2
                  THEN [after_stop EXCEPT !.reads = @ + 1]
                  ELSE after_stop
             /\ IF ShouldPublish(sc.conv)
                THEN /\ pending' = {"x", "y"}
                     /\ mpc' = "store"
                     /\ publog' = Append(publog, PairOf(sc.x, sc.y))
                ELSE /\ pending' = {}
                     /\ mpc' = AfterDrop
                     /\ UNCHANGED publog
    /\ UNCHANGED << modem_thread_stop, orientation, cellseq, renderVars,
                    mainVars >>

\* variant: the store waits while the reader is between its two reads
CanStore_ReaderLock == mpc = "store" /\ pc # "r_read_y"

\* the store may proceed whatever the other thread is doing
CanStore == mpc = "store"

\* main.c:101: the assignment to the volatile struct is not atomic: the
\* compiler may store the two float fields with one instruction or with one
\* instruction each, in either order
ModemStore ==
    /\ CanStore
    /\ \E fs \in (SUBSET pending) \ { {} } :
         /\ orientation' = [f \in {"x", "y"} |->
                IF f \in fs THEN PairOf(x, y)[f] ELSE orientation[f]]
         /\ cellseq' = [f \in {"x", "y"} |->
                IF f \in fs THEN Len(publog) ELSE cellseq[f]]
         /\ pending' = pending \ fs
         /\ after_stop' =
              IF modem_thread_stop # 0
              THEN [after_stop EXCEPT !.pubs = @ \cup { Len(publog) }]
              ELSE after_stop
         /\ mpc' = IF pending' = {} THEN "head" ELSE "store"
    /\ UNCHANGED << modem_thread_stop, buf, res, term_idx, x, y, conv,
                    tty_rest, publog, renderVars, mainVars >>

(***************************************************************************)
(* main, main.c:33-89, and render_thread, main.c:107-154, which main calls *)
(* on its own thread.                                                      *)
(***************************************************************************)
\* main.c:35-38
MainArgs ==
    /\ pc = "start"
    /\ IF argc < 2
       THEN pc' = "exited" /\ exit_code' = 0
       ELSE pc' = "open" /\ UNCHANGED exit_code
    /\ UNCHANGED << modem_thread_stop, orientation, argc, modem_fd, fd_open,
                    modemVars, histVars, renderVars >>

\* variant: the result of open() is not tested
MainOpen_Continue ==
    /\ pc = "open"
    /\ \E ok \in BOOLEAN :
         IF ok
         THEN modem_fd' = 3 /\ fd_open' = TRUE
         ELSE modem_fd' = -1 /\ UNCHANGED fd_open
    /\ pc' = "config"
    /\ UNCHANGED << modem_thread_stop, orientation, argc, exit_code,
                    modemVars, histVars, renderVars >>

\* main.c:40-45
MainOpen ==
    /\ pc = "open"
    /\ \E ok \in BOOLEAN :
         IF ok
         THEN /\ modem_fd' = 3 /\ fd_open' = TRUE
              /\ pc' = "config" /\ UNCHANGED exit_code
         ELSE /\ modem_fd' = -1 /\ UNCHANGED fd_open
              /\ pc' = "exited" /\ exit_code' = 1
    /\ UNCHANGED << modem_thread_stop, orientation, argc, modemVars, histVars,
                    renderVars >>

\* main.c:47-73: save the port settings and install the canonical-mode ones
MainConfigure ==
    /\ pc = "config"
    /\ pc' = "create"
    /\ UNCHANGED << modem_thread_stop, orientation, argc, exit_code, modem_fd,
                    fd_open, modemVars, histVars, renderVars >>

\* variant: the flag starts out set
MainCreate_StopSet ==
    /\ pc = "create"
    /\ modem_thread_stop' = 1
    /\ mpc' = "head"
    /\ pc' = "r_init"
    /\ UNCHANGED << orientation, argc, exit_code, modem_fd, fd_open, buf, res,
                    term_idx, x, y, conv, pending, tty_rest, histVars, renderVars >>

\* main.c:75-77
MainCreate ==
    /\ pc = "create"
    /\ modem_thread_stop' = 0
    /\ mpc' = "head"
    /\ pc' = "r_init"
    /\ UNCHANGED << orientation, argc, exit_code, modem_fd, fd_open, buf, res,
                    term_idx, x, y, conv, pending, tty_rest, histVars, renderVars >>

\* main.c:79 and 108-119: the call, the window, the camera and the model
RenderInit ==
    /\ pc = "r_init"
    /\ pc' = "r_loop"
    /\ UNCHANGED << modem_thread_stop, orientation, argc, exit_code, modem_fd,
                    fd_open, modemVars, histVars, renderVars >>

\* main.c:121  while (!WindowShouldClose()); the locals of the loop body
\* begin a new life with every tick
RenderLoopHead ==
    /\ pc = "r_loop"
    /\ \E close \in BOOLEAN : pc' = IF close THEN "r_close" ELSE "r_read_x"
    /\ x_ang' = NoAngle /\ y_ang' = NoAngle
    /\ text_x' = NoFloat /\ text_y' = NoFloat
    /\ snapseq' = NoSeq
    /\ tick_floor' = IF pending = {} THEN npub ELSE npub - 1
    /\ UNCHANGED << modem_thread_stop, orientation, argc, exit_code, modem_fd,
                    fd_open, modemVars, histVars >>

\* the read of a field may proceed whatever the other thread is doing
CanRead(at) == pc = at

\* main.c:123  float x_ang = DEG2RAD * orientation.x;
RenderReadX ==
    /\ CanRead("r_read_x")
    /\ x_ang' = Deg2Rad(orientation.x)
    /\ snapseq' = [snapseq EXCEPT !.x = cellseq.x]
    /\ pc' = "r_read_y"
    /\ UNCHANGED << modem_thread_stop, orientation, argc, exit_code, modem_fd,
                    fd_open, modemVars, histVars, y_ang, text_x, text_y,
                    tick_floor >>

\* variant: the tick consumes the sample, clearing the cell after its read
RenderReadY_Clear ==
    /\ CanRead("r_read_y")
    /\ y_ang' = Deg2Rad(orientation.y)
    /\ snapseq' = [snapseq EXCEPT !.y = cellseq.y]
    /\ orientation' = OrientationInit
    /\ pc' = "r_text"
    /\ UNCHANGED << modem_thread_stop, argc, exit_code, modem_fd,
                    fd_open, modemVars, histVars, x_ang, text_x, text_y,
                    tick_floor >>

\* main.c:124-145: the read of orientation.y, then the rotation axis and
\* angle from x_ang and y_ang, and the 3D drawing
RenderReadY ==
    /\ CanRead("r_read_y")
    /\ y_ang' = Deg2Rad(orientation.y)
    /\ snapseq' = [snapseq EXCEPT !.y = cellseq.y]
    /\ pc' = "r_text"
    /\ UNCHANGED << modem_thread_stop, orientation, argc, exit_code, modem_fd,
                    fd_open, modemVars, histVars, x_ang, text_x, text_y,
                    tick_floor >>

\* main.c:146-149: the two arguments of TextFormat are read from the cell
\* again, in an unspecified order; the frame ends after the second
RenderText ==
    /\ CanRead("r_text")
    /\ \/ /\ text_x = NoFloat
          /\ text_x' = orientation.x
          /\ UNCHANGED text_y
          /\ pc' = IF text_y = NoFloat THEN "r_text" ELSE "r_loop"
       \/ /\ text_y = NoFloat
          /\ text_y' = orientation.y
          /\ UNCHANGED text_x
          /\ pc' = IF text_x = NoFloat THEN "r_text" ELSE "r_loop"
    /\ UNCHANGED << modem_thread_stop, orientation, argc, exit_code, modem_fd,
                    fd_open, modemVars, histVars, x_ang, y_ang, snapseq,
                    tick_floor >>

\* main.c:151-153
RenderClose ==
    /\ pc = "r_close"
    /\ pc' = "set_stop"
    /\ UNCHANGED << modem_thread_stop, orientation, argc, exit_code, modem_fd,
                    fd_open, modemVars, histVars, renderVars >>

\* main.c:81
MainSetStop ==
    /\ pc = "set_stop"
    /\ modem_thread_stop' = 1
    /\ pc' = "join"
    /\ UNCHANGED << orientation, argc, exit_code, modem_fd, fd_open,
                    modemVars, histVars, renderVars >>

\* variant: main does not wait for the thread
JoinReady_NoWait == TRUE

\* pthread_join returns once the thread function has returned
JoinReady == mpc = "returned"

\* main.c:82
MainJoin ==
    /\ pc = "join"
    /\ JoinReady
    /\ pc' = "restore"
    /\ UNCHANGED << modem_thread_stop, orientation, argc, exit_code, modem_fd,
                    fd_open, modemVars, histVars, renderVars >>

\* main.c:85
MainRestore ==
    /\ pc = "restore"
    /\ pc' = "close"
    /\ UNCHANGED << modem_thread_stop, orientation, argc, exit_code, modem_fd,
                    fd_open, modemVars, histVars, renderVars >>

\* main.c:86-88
MainClose ==
    /\ pc = "close"
    /\ fd_open' = FALSE
    /\ exit_code' = 0
    /\ pc' = "exited"
    /\ UNCHANGED << modem_thread_stop, orientation, argc, modem_fd, modemVars,
                    histVars, renderVars >>

(***************************************************************************)
(* Specifications.                                                         *)
(***************************************************************************)
ModemReadSmall == ModemRead(SmallLines)

ModemStep == ModemHead \/ ModemReadSmall \/ ModemStore

MainStep ==
    \/ MainArgs \/ MainOpen \/ MainConfigure \/ MainCreate
    \/ RenderInit \/ RenderLoopHead \/ RenderReadX \/ RenderReadY
    \/ RenderText \/ RenderClose
    \/ MainSetStop \/ MainJoin \/ MainRestore \/ MainClose

Next == ModemStep \/ MainStep

\* the whole program, every interleaving of the two threads
Spec == Init /\ [][Next]_vars

\* the same, with both threads scheduled fairly and every read returning
FairSpec ==
    /\ Init /\ [][Next]_vars
    /\ WF_vars(ModemHead) /\ WF_vars(ModemReadSmall) /\ WF_vars(ModemStore)
    /\ WF_vars(MainStep)

\* modem_thread alone on the full set of lines, from the state in which
\* main has created it and entered render_thread
InitDecode ==
    /\ modem_thread_stop = 0
    /\ modem_fd = 3
    /\ fd_open = TRUE
    /\ orientation = OrientationInit
    /\ pc = "r_init"
    /\ argc = 2
    /\ exit_code = -1
    /\ x_ang = NoAngle /\ y_ang = NoAngle
    /\ text_x = NoFloat /\ text_y = NoFloat
    /\ mpc = "head"
    /\ buf \in UninitBufs
    /\ res = 0
    /\ term_idx = << >>
    /\ x = 0 /\ y = 0 /\ conv = 0
    /\ pending = {}
    /\ tty_rest = << >>
    /\ publog = << >>
    /\ cellseq = [x |-> 0, y |-> 0]
    /\ snapseq = NoSeq
    /\ tick_floor = 0
    /\ after_stop = [reads |-> 0, pubs |-> {}]

ModemReadDecode == ModemRead(DecodeLines)

NextDecode == ModemHead \/ ModemReadDecode \/ ModemStore

SpecDecode == InitDecode /\ [][NextDecode]_vars

(***************************************************************************)
(* Properties.                                                             *)
(***************************************************************************)
\* the pair a tick obtained at main.c:123-124, once both reads are done
SnapshotTaken == x_ang # NoAngle /\ y_ang # NoAngle
Snapshot == [x |-> x_ang.deg, y |-> y_ang.deg]
ZeroPair == [x |-> FloatZero, y |-> FloatZero]

\* C1: the (x, y) pair a render tick obtains is the initial (0, 0) or the
\* pair written by one single publication, never x of one and y of another.
C1_NoTornRead ==
    SnapshotTaken => Snapshot \in ({ ZeroPair } \cup published)

\* C2: neither side can block the other: whenever modem_thread is at its
\* store it can take it, and whenever render_thread is at a read of the cell
\* it can take it, wherever the other thread is.
C2_NeverBlocked ==
    /\ mpc = "store" => ENABLED ModemStore
    /\ pc = "r_read_x" => ENABLED RenderReadX
    /\ pc = "r_read_y" => ENABLED RenderReadY
    /\ pc = "r_text" => ENABLED RenderText

\* the store half done while the reader is between its two reads
C2_Witness ==
    /\ mpc = "store" /\ Cardinality(pending) = 1
    /\ pc = "r_read_y"

\* C3: a line from which fewer than two fields are decoded fails: no store
\* is begun and the cell keeps its value; the cell only ever changes, field
\* by field, to the pair decoded from a line with both fields, and holds
\* exactly that pair when the store is complete.
C3_FailedDecodeLeavesCell ==
    [][ /\ (mpc = "reading" /\ mpc' # "reading" /\ conv' < 2)
           => (orientation' = orientation /\ pending' = {} /\ mpc' # "store")
        /\ (orientation' # orientation)
           => /\ conv = 2 /\ Sscanf(buf).conv = 2
              /\ \A f \in {"x", "y"} :
                   orientation'[f] \in { orientation[f],
                       PairOf(Sscanf(buf).x, Sscanf(buf).y)[f] }
        /\ (mpc = "store" /\ mpc' = "head")
           => orientation' = PairOf(Sscanf(buf).x, Sscanf(buf).y)
      ]_vars

\* a line with one field only was dropped after a publication: x was
\* converted, the cell still holds the published pair
C3_Witness ==
    /\ buf = OneField /\ res = Len(OneField) /\ conv = 1 /\ x = 5
    /\ mpc = "head"
    /\ npub = 1 /\ orientation = PairOf(PairA[1], PairA[2])

\* C4: while no publication has begun, the cell and every value read from
\* it are the zero orientation (0, 0).
C4_ZeroBeforePublish ==
    npub = 0 =>
        /\ orientation = ZeroPair
        /\ x_ang \in { NoAngle, Deg2Rad(FloatZero) }
        /\ y_ang \in { NoAngle, Deg2Rad(FloatZero) }
        /\ text_x \in { NoFloat, FloatZero }
        /\ text_y \in { NoFloat, FloatZero }

\* a tick has read the cell after a line was read and dropped, before any
\* publication
C4_Witness ==
    /\ npub = 0 /\ res > 0 /\ conv < 2
    /\ SnapshotTaken /\ Snapshot = ZeroPair

\* C5: once main has set the stop flag, and the pending read returns,
\* modem_thread returns and main's pthread_join completes.
C5_JoinCompletes ==
    (modem_thread_stop = 1) ~> (pc \in {"restore", "close", "exited"})

\* the join returned for a thread that had read at least one line
C5_Witness ==
    /\ pc = "restore" /\ modem_thread_stop = 1 /\ mpc = "returned"
    /\ term_idx # << >>

\* C6: main restores the port and closes the descriptor only after
\* modem_thread has returned; the thread is never in read() on a closed
\* descriptor, and no thread is running when main has returned.
C6_TeardownAfterReturn ==
    /\ pc \in {"restore", "close"} => mpc = "returned"
    /\ pc = "exited" => mpc \in {"idle", "returned"}
    /\ mpc = "reading" => fd_open
    /\ (modem_fd = 3 /\ ~fd_open) => mpc = "returned"

\* main has closed the port and returned 0 after the thread returned
C6_Witness ==
    /\ pc = "exited" /\ exit_code = 0
    /\ modem_fd = 3 /\ ~fd_open
    /\ mpc = "returned"

\* C7: a read that returns zero bytes or fails is terminal: modem_thread
\* issues no further read after it.
C7_EofIsTerminal ==
    [][ (mpc = "head" /\ mpc' = "reading")
        => (term_idx = << >> \/ res > 0) ]_vars

\* C8: the pair a tick reads is the value of one publication, no older than
\* the last one completed when the tick began (or the initial value): the
\* reader sees publications in order and may skip some.
C8_LatestPublication ==
    SnapshotTaken =>
        \E k \in tick_floor..npub : Snapshot = PubValue(k)

\* the value of the last publication begun
LastPublished == PubValue(npub)

\* C9: a malformed line is absorbed: after it modem_thread is at its loop
\* head or in the next read (it returns only when the stop flag is set),
\* main has not exited, and the cell holds the last published pair.
C9_MalformedAbsorbed ==
    (term_idx # << >> /\ conv # 2) =>
        /\ mpc \in {"head", "reading", "returned"}
        /\ mpc = "returned" => modem_thread_stop = 1
        /\ pending = {}
        /\ exit_code = -1
        /\ orientation = LastPublished

\* after two publications a quaternion line was dropped and the next read
\* is in progress
C9_Witness ==
    /\ buf = QuatLine /\ conv = 0 /\ mpc = "reading"
    /\ npub = 2 /\ orientation = publog[2]

\* the lines of the legacy form that are delivered, each with its pair
LegacyCases ==
    { [pair |-> p, line |-> LegacyLine(p[1], sep, p[2])] :
          p \in TestPairs, sep \in Seps }
    \cup { [pair |-> PairB, line |-> FullLine] }

\* the line in buf came from the last read and has been processed
Processed(l) == buf = l /\ res = Len(l) /\ mpc = "head"

\* whether (float)n is n: every int of magnitude up to 2^24 is a float
InFloatRange(n) == -Mant24 <= n /\ n <= Mant24

\* C10 as stated: for every legacy line with integers I and J the decode
\* succeeds and the pair in the cell is exactly (I, J).
C10_AnyIntegerPair ==
    \A c \in LegacyCases :
        Processed(c.line) =>
            /\ conv = 2
            /\ FloatIsInt(orientation.x, c.pair[1])
            /\ FloatIsInt(orientation.y, c.pair[2])

\* C10, amended: for every legacy line with integers I and J of magnitude
\* at most 2^24 (16777216) the decode succeeds and the pair in the cell is
\* exactly (I, J).
C10_PairInFloatRange ==
    \A c \in LegacyCases :
        (Processed(c.line) /\ InFloatRange(c.pair[1]) /\ InFloatRange(c.pair[2]))
        =>  /\ conv = 2
            /\ FloatIsInt(orientation.x, c.pair[1])
            /\ FloatIsInt(orientation.y, c.pair[2])

\* the line for (-2^24, 2^24) with a single blank as separator was published
C10_Witness ==
    /\ Processed(LegacyLine(-16777216, << " " >>, 16777216))
    /\ conv = 2 /\ x = -16777216 /\ y = 16777216
    /\ orientation = [x |-> [sig |-> -8388608, exp |-> 1],
                      y |-> [sig |-> 8388608, exp |-> 1]]

\* the identity quaternion (w, x, y, z) = (1, 0, 0, 0)
QuatIdentity ==
    [w |-> [sig |-> 1, exp |-> 0], x |-> FloatZero, y |-> FloatZero,
     z |-> FloatZero]

\* C11: a valid quaternion line "w = A x = B y = C z = D" decodes and the
\* cell then holds the four fields (A, B, C, D); the line
\* "w = 1.0 x = 0.0 y = 0.0 z = 0.0" leaves the identity quaternion.
C11_QuaternionPublished ==
    Processed(QuatLine) =>
        /\ conv > 0
        /\ DOMAIN orientation = {"w", "x", "y", "z"}
        /\ \A f \in {"w", "x", "y", "z"} : orientation[f] = QuatIdentity[f]

\* the positions of main from the creation of the thread to the end of
\* render_thread
RenderPcs == {"r_init", "r_loop", "r_read_x", "r_read_y", "r_text", "r_close"}

\* C12: the stop flag is false from the creation of the thread until the
\* render loop has exited, it is set to true once, by main at shutdown, and
\* once true it never becomes false again.
C12_StopFlagLifecycle ==
    /\ []((mpc # "idle" /\ pc \in RenderPcs \cup {"set_stop"})
            => modem_thread_stop = 0)
    /\ [](pc \in {"join", "restore", "close"} => modem_thread_stop = 1)
    /\ [][ modem_thread_stop' # modem_thread_stop
           => /\ pc = "set_stop" /\ pc' = "join"
              /\ modem_thread_stop = 0 /\ modem_thread_stop' = 1 ]_vars

\* main has set the flag and waits in pthread_join while the thread is
\* still inside read()
C12_Witness ==
    pc = "join" /\ modem_thread_stop = 1 /\ mpc = "reading"

\* C13: the cell has one writer: it changes only in a step of
\* modem_thread's store; every step of render_thread and of main leaves it
\* as it is.
C13_SingleWriter ==
    [][ /\ orientation' # orientation
           => /\ mpc = "store"
              /\ UNCHANGED << mainVars, renderVars, modem_thread_stop >>
        /\ (pc' # pc \/ renderVars' # renderVars)
           => orientation' = orientation ]_vars

\* main ran to its end after a publication that was complete when the last
\* tick began, and the cell still holds that publication
C13_Witness ==
    /\ pc = "exited" /\ exit_code = 0
    /\ npub = 1 /\ tick_floor = 1 /\ orientation = publog[1]

\* no thread was created, the render loop never ran, the cell was never
\* written
NothingStarted ==
    /\ mpc = "idle" /\ term_idx = << >> /\ npub = 0
    /\ orientation = ZeroPair
    /\ x_ang = NoAngle /\ y_ang = NoAngle
    /\ text_x = NoFloat /\ text_y = NoFloat
    /\ snapseq = NoSeq

\* C14: with no device argument main returns 0, and when open() fails main
\* returns 1; in both cases no thread is created, the render loop never
\* runs and the cell is never written.
C14_StartupErrorsExitEarly ==
    /\ argc < 2 =>
          /\ pc \in {"start", "exited"}
          /\ pc = "exited" => exit_code = 0
          /\ NothingStarted
    /\ modem_fd = -1 =>
          /\ pc = "exited" /\ exit_code = 1
          /\ NothingStarted

\* main has returned 1 after a failed open()
C14_Witness ==
    argc = 2 /\ modem_fd = -1 /\ pc = "exited" /\ exit_code = 1

\* C15: after main has set the stop flag modem_thread completes at most
\* one further iteration: at most one more read() returns and the stores of
\* at most one publication reach the cell before the thread returns.
C15_OneIterationAfterStop ==
    /\ after_stop.reads <= 1
    /\ Cardinality(after_stop.pubs) <= 1
    /\ (after_stop.reads = 1 /\ mpc = "head") => modem_thread_stop = 1

\* the thread has returned after the read that was pending when the flag
\* was set delivered a line, which was published
C15_Witness ==
    /\ mpc = "returned"
    /\ after_stop.reads = 1 /\ after_stop.pubs = { npub }
    /\ orientation = publog[npub]

\* C16: for every result of read() the index at which modem_thread stores
\* the string terminator (buf[res] = 0) lies inside the buffer, in
\* 0..buflen-1.
C16_TerminatorInBuffer ==
    term_idx # << >> => term_idx[1] \in 0..(buflen - 1)

\* C17: the x and y values a render tick shows as text are the values the
\* same tick used for its rotation angles, under every interleaving with the
\* stores of modem_thread.
C17_TextMatchesRotation ==
    (text_x # NoFloat /\ text_y # NoFloat) =>
        /\ x_ang = Deg2Rad(text_x)
        /\ y_ang = Deg2Rad(text_y)

\* what a decode attempt amounts to: failure, or the pair it publishes
DecodeOutcome(sc) ==
    IF ShouldPublish(sc.conv) THEN << "published", PairOf(sc.x, sc.y) >>
    ELSE << "failure" >>

\* the bytes the read of the current iteration returned
BytesRead == IF res > 0 THEN buf ELSE << >>

\* C18: the outcome of every decode attempt (failure, or the pair published)
\* is the outcome of decoding the bytes returned by the read of the same
\* iteration alone, for every read result, zero-length and failed reads
\* included.
C18_DecodeOfThisReadOnly ==
    term_idx # << >> =>
        DecodeOutcome([conv |-> conv, x |-> x, y |-> y])
            = DecodeOutcome(ScanBuf(BytesRead))

====
